---- MODULE Spec2Model ----
(***************************************************************************)
(* Model of the DIMACS CNF parser: ReadCNF, the reference cnfBuilder and   *)
(* the line scanner ReadBuilder.  A line is a sequence of one-character    *)
(* strings; the stream is the sequence of lines bufio.Scanner delivers,    *)
(* ended either by EOF or by a read error.                                 *)
(***************************************************************************)
EXTENDS Integers, Sequences, FiniteSets, TLC

VARIABLES
    input,      \* the lines the reader delivers before EOF or a read error
    stream,     \* "open": the scanner has not reached the end of the stream;
                \* "eof": it found the end; "failed": it found the reader's error
    entry,      \* "ReadCNF" or "ReadBuilder": the entry point that was called
    scanErr,    \* the scanner's sticky error: Nil, or the reader's error once
                \* a Read call has returned it
    pos,        \* number of lines scanner.Scan() has returned so far
    pc,         \* "scan": in ReadBuilder's loop; "returned": ReadBuilder has
                \* returned; "done": ReadCNF has returned
    builder,    \* the Builder: the cnfBuilder's cnf pointer or a testBuilder's errors
    clauseBuf,  \* ReadBuilder's scratch buffer
    calls,      \* history: the Builder calls made so far, in order
    rbErr,      \* the error ReadBuilder returned (Nil: none)
    ret         \* what ReadCNF returned: [cnf, err]

vars == <<input, stream, scanErr, entry, pos, pc, builder, clauseBuf, calls, rbErr, ret>>

\* Largest number of lines of an input.
MaxLines == 4

\* Largest number of lines of an input made of the malformed and rejected
\* line shapes (SyntaxLines).
MaxSyntaxLines == 3

\* len of the scratch buffer ReadBuilder allocates.
ClauseBufLen == 32

\* The nil error.
Nil == "nil"

---------------------------------------------------------------------------
(* strings.TrimSpace, strings.Fields, strconv.Atoi on character sequences *)

\* The white space of the inputs considered (Go's set also has \v, \f,
\* U+0085 and U+00A0).
IsSpace(ch) == ch \in {" ", "\t", "\r"}

RECURSIVE TrimLeft(_)
TrimLeft(s) ==
    IF s = <<>> THEN <<>>
    ELSE IF IsSpace(Head(s)) THEN TrimLeft(Tail(s)) ELSE s

RECURSIVE TrimRight(_)
TrimRight(s) ==
    IF s = <<>> THEN <<>>
    ELSE IF IsSpace(s[Len(s)]) THEN TrimRight(SubSeq(s, 1, Len(s) - 1)) ELSE s

TrimSpace(s) == TrimRight(TrimLeft(s))

\* Fields: the maximal runs of non-space characters of s, in order.
\* cur is the field being read, out the fields already closed.
RECURSIVE FieldsFrom(_, _, _)
FieldsFrom(s, cur, out) ==
    IF s = <<>> THEN (IF cur = <<>> THEN out ELSE Append(out, cur))
    ELSE IF IsSpace(Head(s))
         THEN FieldsFrom(Tail(s), <<>>, IF cur = <<>> THEN out ELSE Append(out, cur))
         ELSE FieldsFrom(Tail(s), Append(cur, Head(s)), out)

Fields(s) == FieldsFrom(s, <<>>, <<>>)

Digits == {"0", "1", "2", "3", "4", "5", "6", "7", "8", "9"}

DigitVal(ch) ==
    CASE ch = "0" -> 0 [] ch = "1" -> 1 [] ch = "2" -> 2 [] ch = "3" -> 3
      [] ch = "4" -> 4 [] ch = "5" -> 5 [] ch = "6" -> 6 [] ch = "7" -> 7
      [] ch = "8" -> 8 [] ch = "9" -> 9

RECURSIVE DecValue(_, _)
DecValue(s, acc) ==
    IF s = <<>> THEN acc ELSE DecValue(Tail(s), acc * 10 + DigitVal(Head(s)))

\* strconv.Atoi: an optional sign, then one or more decimal digits.
Atoi(s) ==
    LET signed == s # <<>> /\ Head(s) \in {"+", "-"}
        body   == IF signed THEN Tail(s) ELSE s
    IN  IF body = <<>> \/ \E i \in 1..Len(body) : body[i] \notin Digits
        THEN [err |-> "syntax", val |-> 0]
        ELSE [err |-> Nil,
              val |-> IF signed /\ Head(s) = "-" THEN 0 - DecValue(body, 0)
                      ELSE DecValue(body, 0)]

---------------------------------------------------------------------------
(* CNFFormula and the reference builder cnfBuilder *)

\* CNFFormula{}: the zero value.
EmptyFormula == [NumVars |-> 0, Clauses |-> <<>>]

\* The format tag the reference builder accepts.
CnfTag == <<"c", "n", "f">>

\* A *CNFFormula is <<>> (nil) or <<f>>, f the formula pointed to; f.cap is
\* cap(f.Clauses), fixed by make([][]int, 0, c); f.shared is the set of the
\* k for which f.Clauses[k] is a slice of ReadBuilder's scratch buffer
\* and not of an array of its own.
NilCNF == <<>>

\* cnfBuilder{}.
NewCnfBuilder ==
    [kind |-> "cnf", cnf |-> NilCNF,
     ProblemErr |-> Nil, ClauseErr |-> Nil, CommentErr |-> Nil]

\* testBuilder{ProblemErr, ClauseErr, CommentErr}.
NewTestBuilder(pe, ce, me) ==
    [kind |-> "test", cnf |-> NilCNF,
     ProblemErr |-> pe, ClauseErr |-> ce, CommentErr |-> me]

\* cnfBuilder.Problem without the check for an earlier problem line.
CnfProblem_NoDuplicateCheck(cnf, p, v, c) ==
    IF p # CnfTag THEN [err |-> "expected cnf problem", cnf |-> cnf]
    ELSE IF v < 0 THEN [err |-> "number of variables must be non-negative", cnf |-> cnf]
    ELSE IF c < 0 THEN [err |-> "number of clauses must be non-negative", cnf |-> cnf]
    ELSE [err |-> Nil,
          cnf |-> <<[NumVars |-> v, Clauses |-> <<>>, cap |-> c, shared |-> {}]>>]

\* cnfBuilder.Problem without the check of the format tag.
CnfProblem_NoTagCheck(cnf, p, v, c) ==
    IF cnf # NilCNF THEN [err |-> "duplicate problem line", cnf |-> cnf]
    ELSE IF v < 0 THEN [err |-> "number of variables must be non-negative", cnf |-> cnf]
    ELSE IF c < 0 THEN [err |-> "number of clauses must be non-negative", cnf |-> cnf]
    ELSE [err |-> Nil,
          cnf |-> <<[NumVars |-> v, Clauses |-> <<>>, cap |-> c, shared |-> {}]>>]

\* cnfBuilder.Problem: [err, cnf] after the call.
CnfProblem(cnf, p, v, c) ==
    IF cnf # NilCNF THEN [err |-> "duplicate problem line", cnf |-> cnf]
    ELSE IF p # CnfTag THEN [err |-> "expected cnf problem", cnf |-> cnf]
    ELSE IF v < 0 THEN [err |-> "number of variables must be non-negative", cnf |-> cnf]
    ELSE IF c < 0 THEN [err |-> "number of clauses must be non-negative", cnf |-> cnf]
    ELSE [err |-> Nil,
          cnf |-> <<[NumVars |-> v, Clauses |-> <<>>, cap |-> c, shared |-> {}]>>]

\* cnfBuilder.Clause dropping a clause that comes before the problem line
\* instead of rejecting it.
CnfClause_NoNilCheck(cnf, tmp) ==
    IF cnf = NilCNF THEN [err |-> Nil, cnf |-> cnf]
    ELSE IF Len(cnf[1].Clauses) = cnf[1].cap
         THEN [err |-> "too many clauses", cnf |-> cnf]
    ELSE [err |-> Nil,
          cnf |-> <<[cnf[1] EXCEPT !.Clauses = Append(@, tmp)]>>]

\* cnfBuilder.Clause without the capacity check: append grows the slice.
CnfClause_NoCapCheck(cnf, tmp) ==
    IF cnf = NilCNF THEN [err |-> "clause found before problem line", cnf |-> cnf]
    ELSE [err |-> Nil,
          cnf |-> <<[cnf[1] EXCEPT !.Clauses = Append(@, tmp)]>>]

\* cnfBuilder.Clause rejecting a literal of a variable above NumVars.
CnfClause_BoundChecked(cnf, tmp) ==
    IF cnf = NilCNF THEN [err |-> "clause found before problem line", cnf |-> cnf]
    ELSE IF Len(cnf[1].Clauses) = cnf[1].cap
         THEN [err |-> "too many clauses", cnf |-> cnf]
    ELSE IF \E j \in 1..Len(tmp) :
                tmp[j] > cnf[1].NumVars \/ 0 - tmp[j] > cnf[1].NumVars
         THEN [err |-> "literal out of range", cnf |-> cnf]
    ELSE [err |-> Nil,
          cnf |-> <<[cnf[1] EXCEPT !.Clauses = Append(@, tmp)]>>]

\* cnfBuilder.Clause appending tmp itself, without make and copy.
CnfClause_StoreBuffer(cnf, tmp) ==
    IF cnf = NilCNF THEN [err |-> "clause found before problem line", cnf |-> cnf]
    ELSE IF Len(cnf[1].Clauses) = cnf[1].cap
         THEN [err |-> "too many clauses", cnf |-> cnf]
    ELSE [err |-> Nil,
          cnf |-> <<[cnf[1] EXCEPT !.Clauses = Append(@, tmp),
                                   !.shared = @ \cup {Len(cnf[1].Clauses) + 1}]>>]

\* cnfBuilder.Clause: [err, cnf] after the call; the clause stored is a copy
\* of tmp in an array of its own.
CnfClause(cnf, tmp) ==
    IF cnf = NilCNF THEN [err |-> "clause found before problem line", cnf |-> cnf]
    ELSE IF Len(cnf[1].Clauses) = cnf[1].cap
         THEN [err |-> "too many clauses", cnf |-> cnf]
    ELSE [err |-> Nil,
          cnf |-> <<[cnf[1] EXCEPT !.Clauses = Append(@, tmp)]>>]

\* cnfBuilder.Comment.
CnfComment(cnf, c) == [err |-> Nil, cnf |-> cnf]

\* Builder.Problem, Builder.Clause, Builder.Comment on either implementation:
\* [err, builder] after the call.
BuilderProblem(b, p, v, c) ==
    IF b.kind = "cnf"
    THEN LET r == CnfProblem(b.cnf, p, v, c)
         IN  [err |-> r.err, builder |-> [b EXCEPT !.cnf = r.cnf]]
    ELSE [err |-> b.ProblemErr, builder |-> b]

BuilderClause(b, tmp) ==
    IF b.kind = "cnf"
    THEN LET r == CnfClause(b.cnf, tmp)
         IN  [err |-> r.err, builder |-> [b EXCEPT !.cnf = r.cnf]]
    ELSE [err |-> b.ClauseErr, builder |-> b]

BuilderComment(b, line) ==
    IF b.kind = "cnf"
    THEN LET r == CnfComment(b.cnf, line)
         IN  [err |-> r.err, builder |-> [b EXCEPT !.cnf = r.cnf]]
    ELSE [err |-> b.CommentErr, builder |-> b]

---------------------------------------------------------------------------
(* ReadBuilder: the handling of one trimmed, non-empty line *)

\* The Builder calls, as recorded in the history: the operation, its
\* arguments and the error it returned.
CommentCall(line, e) == [op |-> "Comment", arg |-> <<line>>, err |-> e]
ProblemCall(p, v, c, e) == [op |-> "Problem", arg |-> <<p, v, c>>, err |-> e]
ClauseCall(tmp, e) == [op |-> "Clause", arg |-> tmp, err |-> e]

\* The loop ending at the first 0, wherever it is.
RECURSIVE ClauseLoop_ZeroAnywhere(_, _, _)
ClauseLoop_ZeroAnywhere(parts, i, buf) ==
    IF i > Len(parts) THEN [err |-> Nil, buf |-> buf]
    ELSE LET a == Atoi(parts[i])
         IN  IF a.err # Nil THEN [err |-> "invalid literal in clause", buf |-> buf]
             ELSE IF a.val = 0 THEN [err |-> Nil, buf |-> buf]
             ELSE ClauseLoop_ZeroAnywhere(parts, i + 1, Append(buf, a.val))

\* The loop keeping the final 0 in the buffer.
RECURSIVE ClauseLoop_KeepZero(_, _, _)
ClauseLoop_KeepZero(parts, i, buf) ==
    IF i > Len(parts) THEN [err |-> Nil, buf |-> buf]
    ELSE LET a == Atoi(parts[i])
         IN  IF a.err # Nil THEN [err |-> "invalid literal in clause", buf |-> buf]
             ELSE IF a.val = 0 /\ i # Len(parts)
                  THEN [err |-> "zero found before end of clause line", buf |-> buf]
             ELSE ClauseLoop_KeepZero(parts, i + 1, Append(buf, a.val))

\* The loop over parts of a clause line, from index i with buffer buf:
\* [err, buf] when the loop ends or returns.
RECURSIVE ClauseLoop(_, _, _)
ClauseLoop(parts, i, buf) ==
    IF i > Len(parts) THEN [err |-> Nil, buf |-> buf]
    ELSE LET a == Atoi(parts[i])
         IN  IF a.err # Nil THEN [err |-> "invalid literal in clause", buf |-> buf]
             ELSE IF a.val = 0
                  THEN IF i # Len(parts)
                       THEN [err |-> "zero found before end of clause line", buf |-> buf]
                       ELSE [err |-> Nil, buf |-> buf]
             ELSE ClauseLoop(parts, i + 1, Append(buf, a.val))

\* case 'c' without the call of b.Comment.
HandleComment_NoCall(b, buf, line) ==
    [err |-> Nil, builder |-> b, buf |-> buf, call |-> <<>>]

\* case 'c': [err, builder, buf, call]; call is <<>> when no Builder call is made.
HandleComment(b, buf, line) ==
    LET r == BuilderComment(b, line)
    IN  [err |-> r.err, builder |-> r.builder, buf |-> buf,
         call |-> <<CommentCall(line, r.err)>>]

\* case 'p' accepting a line of more than 4 fields.
HandleProblem_ExtraFields(b, buf, line) ==
    LET parts == Fields(line)
        none  == [err |-> Nil, builder |-> b, buf |-> buf, call |-> <<>>]
    IN  IF Len(parts) < 4
        THEN [none EXCEPT !.err = "problem line should have 4 parts"]
        ELSE IF Atoi(parts[3]).err # Nil
        THEN [none EXCEPT !.err = "invalid number of variables"]
        ELSE IF Atoi(parts[4]).err # Nil
        THEN [none EXCEPT !.err = "invalid number of clauses"]
        ELSE LET nVars    == Atoi(parts[3]).val
                 nClauses == Atoi(parts[4]).val
                 r        == BuilderProblem(b, parts[2], nVars, nClauses)
             IN  [err |-> r.err, builder |-> r.builder, buf |-> buf,
                  call |-> <<ProblemCall(parts[2], nVars, nClauses, r.err)>>]

\* case 'p' with the check of the format in the scanner.
HandleProblem_TagChecked(b, buf, line) ==
    LET parts == Fields(line)
        none  == [err |-> Nil, builder |-> b, buf |-> buf, call |-> <<>>]
    IN  IF Len(parts) # 4
        THEN [none EXCEPT !.err = "problem line should have 4 parts"]
        ELSE IF parts[2] # CnfTag
        THEN [none EXCEPT !.err = "expected \"cnf\" problem"]
        ELSE IF Atoi(parts[3]).err # Nil
        THEN [none EXCEPT !.err = "invalid number of variables"]
        ELSE IF Atoi(parts[4]).err # Nil
        THEN [none EXCEPT !.err = "invalid number of clauses"]
        ELSE LET nVars    == Atoi(parts[3]).val
                 nClauses == Atoi(parts[4]).val
                 r        == BuilderProblem(b, parts[2], nVars, nClauses)
             IN  [err |-> r.err, builder |-> r.builder, buf |-> buf,
                  call |-> <<ProblemCall(parts[2], nVars, nClauses, r.err)>>]

\* case 'p'.
HandleProblem(b, buf, line) ==
    LET parts == Fields(line)
        none  == [err |-> Nil, builder |-> b, buf |-> buf, call |-> <<>>]
    IN  IF Len(parts) # 4
        THEN [none EXCEPT !.err = "problem line should have 4 parts"]
        ELSE IF Atoi(parts[3]).err # Nil
        THEN [none EXCEPT !.err = "invalid number of variables"]
        ELSE IF Atoi(parts[4]).err # Nil
        THEN [none EXCEPT !.err = "invalid number of clauses"]
        ELSE LET nVars    == Atoi(parts[3]).val
                 nClauses == Atoi(parts[4]).val
                 r        == BuilderProblem(b, parts[2], nVars, nClauses)
             IN  [err |-> r.err, builder |-> r.builder, buf |-> buf,
                  call |-> <<ProblemCall(parts[2], nVars, nClauses, r.err)>>]

\* Builder b once clauseBuf = clauseBuf[:0] and the appends of the clause
\* loop have written buf at the start of the scratch buffer's array: the
\* slices of that array the builder holds (none, for the builders of this
\* package) show the new elements.
Overwritten(b, buf) ==
    IF b.cnf = NilCNF THEN b
    ELSE [b EXCEPT !.cnf = <<[b.cnf[1] EXCEPT !.Clauses =
             [k \in 1..Len(@) |->
                 IF k \in b.cnf[1].shared
                 THEN [j \in 1..Len(@[k]) |->
                          IF j <= Len(buf) THEN buf[j] ELSE @[k][j]]
                 ELSE @[k]]]>>]

\* default without the check of b.Clause's error.
HandleClause_IgnoreErr(b, buf, line) ==
    LET l == ClauseLoop(Fields(line), 1, <<>>)
    IN  IF l.err # Nil
        THEN [err |-> l.err, builder |-> Overwritten(b, l.buf), buf |-> l.buf,
              call |-> <<>>]
        ELSE LET r == BuilderClause(Overwritten(b, l.buf), l.buf)
             IN  [err |-> Nil, builder |-> r.builder, buf |-> l.buf,
                  call |-> <<ClauseCall(l.buf, r.err)>>]

\* default skipping a line that leaves the buffer empty, without the call
\* of b.Clause.
HandleClause_SkipEmpty(b, buf, line) ==
    LET l == ClauseLoop(Fields(line), 1, <<>>)
    IN  IF l.err # Nil
        THEN [err |-> l.err, builder |-> Overwritten(b, l.buf), buf |-> l.buf,
              call |-> <<>>]
        ELSE IF l.buf = <<>>
        THEN [err |-> Nil, builder |-> b, buf |-> l.buf, call |-> <<>>]
        ELSE LET r == BuilderClause(Overwritten(b, l.buf), l.buf)
             IN  [err |-> r.err, builder |-> r.builder, buf |-> l.buf,
                  call |-> <<ClauseCall(l.buf, r.err)>>]

\* default: a clause line.
HandleClause(b, buf, line) ==
    LET l == ClauseLoop(Fields(line), 1, <<>>)
    IN  IF l.err # Nil
        THEN [err |-> l.err, builder |-> Overwritten(b, l.buf), buf |-> l.buf,
              call |-> <<>>]
        ELSE LET r == BuilderClause(Overwritten(b, l.buf), l.buf)
             IN  [err |-> r.err, builder |-> r.builder, buf |-> l.buf,
                  call |-> <<ClauseCall(l.buf, r.err)>>]

\* switch line[0] without the case 'c'.
LineKind_NoCommentCase(line) ==
    IF line = <<>> THEN "blank"
    ELSE IF line[1] = "p" THEN "problem"
    ELSE "clause"

\* switch line[0].
LineKind(line) ==
    IF line = <<>> THEN "blank"
    ELSE IF line[1] = "c" THEN "comment"
    ELSE IF line[1] = "p" THEN "problem"
    ELSE "clause"

---------------------------------------------------------------------------
(* ReadCNF's return *)

\* ReadCNF without the check of the number of clauses.
ReadCNFResult_NoClauseCheck(err, b) ==
    IF err # Nil THEN [cnf |-> EmptyFormula, err |-> err]
    ELSE IF b.cnf = NilCNF
    THEN [cnf |-> EmptyFormula, err |-> "missing problem line found"]
    ELSE [cnf |-> [NumVars |-> b.cnf[1].NumVars, Clauses |-> b.cnf[1].Clauses],
          err |-> Nil]

\* ReadCNF returning what the builder holds along with ReadBuilder's error.
ReadCNFResult_PartialOnError(err, b) ==
    IF err # Nil
    THEN [cnf |-> IF b.cnf = NilCNF THEN EmptyFormula
                  ELSE [NumVars |-> b.cnf[1].NumVars, Clauses |-> b.cnf[1].Clauses],
          err |-> err]
    ELSE IF b.cnf = NilCNF
    THEN [cnf |-> EmptyFormula, err |-> "missing problem line found"]
    ELSE IF Len(b.cnf[1].Clauses) < b.cnf[1].cap
    THEN [cnf |-> EmptyFormula, err |-> "missing clauses"]
    ELSE [cnf |-> [NumVars |-> b.cnf[1].NumVars, Clauses |-> b.cnf[1].Clauses],
          err |-> Nil]

\* ReadCNF without the check for a builder that saw no problem line.
ReadCNFResult_NoNilCheck(err, b) ==
    IF err # Nil THEN [cnf |-> EmptyFormula, err |-> err]
    ELSE IF b.cnf = NilCNF
    THEN [cnf |-> EmptyFormula, err |-> Nil]
    ELSE IF Len(b.cnf[1].Clauses) < b.cnf[1].cap
    THEN [cnf |-> EmptyFormula, err |-> "missing clauses"]
    ELSE [cnf |-> [NumVars |-> b.cnf[1].NumVars, Clauses |-> b.cnf[1].Clauses],
          err |-> Nil]

\* ReadCNF comparing with <= where the code has <.
ReadCNFResult_AtMostCap(err, b) ==
    IF err # Nil THEN [cnf |-> EmptyFormula, err |-> err]
    ELSE IF b.cnf = NilCNF
    THEN [cnf |-> EmptyFormula, err |-> "missing problem line found"]
    ELSE IF Len(b.cnf[1].Clauses) <= b.cnf[1].cap
    THEN [cnf |-> EmptyFormula, err |-> "missing clauses"]
    ELSE [cnf |-> [NumVars |-> b.cnf[1].NumVars, Clauses |-> b.cnf[1].Clauses],
          err |-> Nil]

\* What ReadCNF returns once ReadBuilder has returned err with builder b.
ReadCNFResult(err, b) ==
    IF err # Nil THEN [cnf |-> EmptyFormula, err |-> err]
    ELSE IF b.cnf = NilCNF
    THEN [cnf |-> EmptyFormula, err |-> "missing problem line found"]
    ELSE IF Len(b.cnf[1].Clauses) < b.cnf[1].cap
    THEN [cnf |-> EmptyFormula, err |-> "missing clauses"]
    ELSE [cnf |-> [NumVars |-> b.cnf[1].NumVars, Clauses |-> b.cnf[1].Clauses],
          err |-> Nil]

\* ReadBuilder's loop over the lines in[i..], read to a clean EOF, from
\* builder b and buffer buf: [err, builder] when ReadBuilder returns.
RECURSIVE ScanAll(_, _, _, _)
ScanAll(in, i, b, buf) ==
    IF i > Len(in) THEN [err |-> Nil, builder |-> b]
    ELSE LET line == TrimSpace(in[i])
             k    == LineKind(line)
         IN  IF k = "blank" THEN ScanAll(in, i + 1, b, buf)
             ELSE LET h == CASE k = "comment" -> HandleComment(b, buf, line)
                             [] k = "problem" -> HandleProblem(b, buf, line)
                             [] k = "clause"  -> HandleClause(b, buf, line)
                  IN  IF h.err # Nil THEN [err |-> h.err, builder |-> h.builder]
                      ELSE ScanAll(in, i + 1, h.builder, h.buf)

\* ReadCNF on a reader that delivers the lines in and then ends.
ReadCNFOf(in) ==
    LET r == ScanAll(in, 1, NewCnfBuilder, [i \in 1..ClauseBufLen |-> 0])
    IN  ReadCNFResult(r.err, r.builder)

---------------------------------------------------------------------------
(* Inputs *)

L_empty    == <<>>
L_spaces   == <<" ", "\t">>
L_comment  == <<"c", " ", "x">>
L_c        == <<"c">>
L_p11      == <<"p", " ", "c", "n", "f", " ", "1", " ", "1">>
L_p22      == <<"p", " ", "c", "n", "f", " ", "2", " ", "2", " ">>
L_p00      == <<"p", " ", "c", "n", "f", " ", "0", " ", "0">>
L_pfoo     == <<"p", " ", "f", "o", "o", " ", "1", " ", "1">>
L_pshort   == <<"p", " ", "c", "n", "f", " ", "1">>
L_cl1      == <<"1", " ", "0">>
L_cl21     == <<" ", "-", "2", " ", " ", "1">>
L_cl0      == <<"0">>
L_clzero   == <<"1", " ", "0", " ", "2", " ", "0">>
L_clbad    == <<"1", " ", "a", " ", "0">>
L_percent  == <<"%">>
L_pnegv    == <<"p", " ", "c", "n", "f", " ", "-", "1", " ", "1">>
L_pnegc    == <<"p", " ", "c", "n", "f", " ", "1", " ", "-", "1">>
L_plong    == <<"p", " ", "c", "n", "f", " ", "1", " ", "1", " ", "1">>
L_pbadv    == <<"p", " ", "c", "n", "f", " ", "a", " ", "1">>
L_pbadc    == <<"p", " ", "c", "n", "f", " ", "1", " ", "a">>
L_cl1n     == <<"1">>
L_cl210    == <<"-", "2", " ", "1", " ", "0">>
L_clzfirst == <<"0", " ", "1">>
L_clnzero  == <<"2", " ", "-", "0", " ", "1">>

\* The lines ReadCNF's inputs are made of.
CnfLines ==
    {L_empty, L_comment, L_p11, L_p22, L_p00, L_pfoo,
     L_cl1, L_cl21, L_cl0, L_clzero, L_percent}

\* The lines the inputs of a direct call of ReadBuilder are made of.
BuilderLines ==
    {L_spaces, L_c, L_comment, L_p11, L_pshort, L_cl1, L_cl21, L_clbad}

\* The errors a testBuilder is configured with (TestReadBuilder).
TestBuilders ==
    {NewTestBuilder(Nil, Nil, Nil),
     NewTestBuilder("problem error", Nil, Nil),
     NewTestBuilder(Nil, "clause error", Nil),
     NewTestBuilder(Nil, Nil, "comment error")}

\* The problem and clause lines the scanner or the reference builder
\* rejects, next to accepted ones.
SyntaxLines ==
    {L_empty, L_comment,
     L_p11, L_p22, L_pfoo, L_pnegv, L_pnegc, L_pshort, L_plong, L_pbadv, L_pbadc,
     L_cl1, L_cl1n, L_cl21, L_cl210, L_cl0,
     L_clzero, L_clzfirst, L_clnzero, L_clbad}

\* Blank, comment, valid problem and well-formed clause lines.
CoreLines ==
    {L_empty, L_comment, L_c, L_p11, L_p22, L_p00, L_cl1, L_cl21, L_cl0}

\* The lines of the inputs whose reader may fail at any Read call.
StreamLines == {L_empty, L_comment, L_p11, L_p22, L_cl1, L_cl21, L_clbad}

\* The lines given to the builder that accepts every call.
PermissiveLines ==
    {L_empty, L_comment, L_p11, L_pfoo, L_pnegv, L_pnegc, L_plong,
     L_cl1, L_cl21}

InputsUpTo(lines, max) == UNION {[1..n -> lines] : n \in 0..max}

Inputs(lines) == InputsUpTo(lines, MaxLines)

---------------------------------------------------------------------------
(* The state machine *)

\* ReadBuilder's entry: scanner := bufio.NewScanner(r); clauseBuf := make([]int, 32).
InitOn(e, builders, inputs) ==
    /\ input \in inputs
    /\ stream = "open"
    /\ scanErr = Nil
    /\ entry = e
    /\ builder \in builders
    /\ pos = 0
    /\ pc = "scan"
    /\ clauseBuf = [i \in 1..ClauseBufLen |-> 0]
    /\ calls = <<>>
    /\ rbErr = Nil
    /\ ret = [cnf |-> EmptyFormula, err |-> Nil]

InitWith(e, builders, lines) == InitOn(e, builders, Inputs(lines))

Init == InitWith("ReadCNF", {NewCnfBuilder}, CnfLines)

InitCore == InitWith("ReadCNF", {NewCnfBuilder}, CoreLines)

InitStream == InitWith("ReadCNF", {NewCnfBuilder}, StreamLines)

InitPermissive ==
    InitWith("ReadBuilder", {NewTestBuilder(Nil, Nil, Nil)}, PermissiveLines)

InitSyntax ==
    InitOn("ReadCNF", {NewCnfBuilder}, InputsUpTo(SyntaxLines, MaxSyntaxLines))

InitBuilder ==
    InitWith("ReadBuilder", TestBuilders \cup {NewCnfBuilder}, BuilderLines)

\* scanner.Scan() returned true: the line just read, trimmed.
CurLine == TrimSpace(input[pos + 1])

\* The loop body's effect h = [err, builder, buf, call] on the state: an error
\* returns from ReadBuilder, otherwise the loop goes on.
Apply(h) ==
    /\ pos' = pos + 1
    /\ builder' = h.builder
    /\ clauseBuf' = h.buf
    /\ calls' = calls \o h.call
    /\ rbErr' = h.err
    /\ pc' = IF h.err # Nil THEN "returned" ELSE "scan"
    /\ UNCHANGED <<input, stream, scanErr, entry, ret>>

\* if line == "" { continue }
ScanBlank ==
    /\ pc = "scan" /\ pos < Len(input)
    /\ LineKind(CurLine) = "blank"
    /\ pos' = pos + 1
    /\ UNCHANGED <<input, stream, scanErr, entry, pc, builder, clauseBuf, calls, rbErr, ret>>

ScanComment ==
    /\ pc = "scan" /\ pos < Len(input)
    /\ LineKind(CurLine) = "comment"
    /\ Apply(HandleComment(builder, clauseBuf, CurLine))

ScanProblem ==
    /\ pc = "scan" /\ pos < Len(input)
    /\ LineKind(CurLine) = "problem"
    /\ Apply(HandleProblem(builder, clauseBuf, CurLine))

ScanClause ==
    /\ pc = "scan" /\ pos < Len(input)
    /\ LineKind(CurLine) = "clause"
    /\ Apply(HandleClause(builder, clauseBuf, CurLine))

\* scanner.Scan() returned false at the end of the stream; scanner.Err() is nil.
ScanEOF ==
    /\ pc = "scan" /\ pos = Len(input)
    /\ scanErr = Nil
    /\ stream' = "eof"
    /\ rbErr' = Nil
    /\ pc' = "returned"
    /\ UNCHANGED <<input, scanErr, entry, pos, builder, clauseBuf, calls, ret>>

\* if err := scanner.Err(); err != nil { return err } left out.
ScanReadError_ErrUnchecked ==
    /\ pc = "scan" /\ pos = Len(input)
    /\ stream' = "failed"
    /\ scanErr' = "read error"
    /\ rbErr' = Nil
    /\ pc' = "returned"
    /\ UNCHANGED <<input, entry, pos, builder, clauseBuf, calls, ret>>

\* scanner.Scan() returned false because the reader failed after delivering
\* input (the scanner still hands out the lines it had read); scanner.Err()
\* is the reader's error.  The Read call that fails is this last one, or an
\* earlier one (ReaderFailsEarly).
ScanReadError ==
    /\ pc = "scan" /\ pos = Len(input)
    /\ stream' = "failed"
    /\ scanErr' = "read error"
    /\ rbErr' = scanErr'
    /\ pc' = "returned"
    /\ UNCHANGED <<input, entry, pos, builder, clauseBuf, calls, ret>>

\* A Read call of the scanner returns the reader's error while lines it has
\* read are still to be handed out: the reader returned them along with the
\* error, or the last of them is the unterminated end of the data.  The
\* scanner keeps the error and hands those lines out first (bufio.Scanner).
ReaderFailsEarly ==
    /\ pc = "scan" /\ pos < Len(input)
    /\ scanErr = Nil
    /\ scanErr' = "read error"
    /\ UNCHANGED <<input, stream, entry, pos, pc, builder, clauseBuf, calls, rbErr, ret>>

\* ReadCNF after ReadBuilder has returned.
ReadCNFReturn ==
    /\ pc = "returned" /\ entry = "ReadCNF"
    /\ ret' = ReadCNFResult(rbErr, builder)
    /\ pc' = "done"
    /\ UNCHANGED <<input, stream, scanErr, entry, pos, builder, clauseBuf, calls, rbErr>>

NextBuilder ==
    \/ ScanBlank
    \/ ScanComment
    \/ ScanProblem
    \/ ScanClause
    \/ ScanEOF
    \/ ScanReadError

Next ==
    \/ ScanBlank
    \/ ScanComment
    \/ ScanProblem
    \/ ScanClause
    \/ ScanEOF
    \/ ScanReadError
    \/ ReadCNFReturn

\* ReadCNF(r) on every input.
Spec == Init /\ [][Next]_vars

NextStream ==
    \/ ScanBlank
    \/ ScanComment
    \/ ScanProblem
    \/ ScanClause
    \/ ScanEOF
    \/ ScanReadError
    \/ ReaderFailsEarly
    \/ ReadCNFReturn

\* ReadCNF(r) on every input of lines that are well formed one by one.
SpecCore == InitCore /\ [][Next]_vars

\* ReadCNF(r) on readers that may fail before the scanner has handed out
\* every line it read.
SpecStream == InitStream /\ [][NextStream]_vars

\* ReadBuilder(r, b) with the testBuilder whose operations return nil.
SpecPermissive == InitPermissive /\ [][NextBuilder]_vars

\* ReadCNF(r) on every input of malformed, rejected and accepted lines.
SpecSyntax == InitSyntax /\ [][Next]_vars

\* ReadBuilder(r, b) with a testBuilder or the cnfBuilder on every input.
SpecBuilder == InitBuilder /\ [][NextBuilder]_vars

---------------------------------------------------------------------------
(* What an input says, read off its lines *)

\* The kind of the i-th line of the input, by the first character that is
\* not white space.
Kind(i) ==
    LET l == TrimSpace(input[i])
    IN  CASE l = <<>>      -> "blank"
          [] l # <<>> /\ Head(l) = "c" -> "comment"
          [] l # <<>> /\ Head(l) = "p" -> "problem"
          [] OTHER         -> "clause"

\* The Builder operation a line of that kind is delivered to.
OpOfKind(k) ==
    CASE k = "comment" -> "Comment"
      [] k = "problem" -> "Problem"
      [] k = "clause"  -> "Clause"

ProblemLines == {i \in 1..Len(input) : Kind(i) = "problem"}
ClauseLines  == {i \in 1..Len(input) : Kind(i) = "clause"}

IsInt(tok) == Atoi(tok).err = Nil

\* A problem line the scanner can split and parse.
WellFormedProblem(i) ==
    LET parts == Fields(input[i])
    IN  Len(parts) = 4 /\ IsInt(parts[3]) /\ IsInt(parts[4])

\* The counts a well-formed problem line declares.
DeclaredVars(i)    == Atoi(Fields(input[i])[3]).val
DeclaredClauses(i) == Atoi(Fields(input[i])[4]).val

\* A clause line of integers whose only 0, if any, is the last token.
WellFormedClause(i) ==
    LET parts == Fields(input[i])
    IN  \A k \in 1..Len(parts) :
            /\ IsInt(parts[k])
            /\ Atoi(parts[k]).val = 0 => k = Len(parts)

WellFormedLine(i) ==
    CASE Kind(i) = "problem" -> WellFormedProblem(i)
      [] Kind(i) = "clause"  -> WellFormedClause(i)
      [] OTHER               -> TRUE

\* The indices of the lines scanned so far that are not blank, in file order.
NonBlankScanned == SelectSeq([i \in 1..pos |-> i], LAMBDA i : Kind(i) # "blank")

\* The Builder calls made so far that are Problem calls the builder accepted.
AcceptedProblems ==
    {k \in 1..Len(calls) : calls[k].op = "Problem" /\ calls[k].err = Nil}

\* The number of Clause calls the builder accepted before the k-th call.
AcceptedClausesBefore(k) ==
    Cardinality({j \in 1..(k - 1) : calls[j].op = "Clause" /\ calls[j].err = Nil})

\* Line i comes before every problem line and every other clause line.
FirstStructural(i) == \A j \in 1..(i - 1) : Kind(j) \in {"blank", "comment"}

\* A well-formed problem line the reference builder accepts when it is the first.
ValidProblem(i) ==
    /\ Kind(i) = "problem" /\ WellFormedProblem(i)
    /\ Fields(input[i])[2] = CnfTag
    /\ DeclaredVars(i) >= 0 /\ DeclaredClauses(i) >= 0

---------------------------------------------------------------------------
(* Claims *)

\* C1: whenever ReadCNF returns without error, the input holds exactly one
\* problem line, the returned formula has as many clauses as that line
\* declares (which is also the number of clause lines of the input) and its
\* NumVars is the declared variable count.
C1_CountsMatchDeclaration ==
    (pc = "done" /\ ret.err = Nil) =>
        \E i \in ProblemLines :
            /\ ProblemLines = {i}
            /\ WellFormedProblem(i)
            /\ Len(ret.cnf.Clauses) = DeclaredClauses(i)
            /\ Cardinality(ClauseLines) = DeclaredClauses(i)
            /\ ret.cnf.NumVars = DeclaredVars(i)

\* A successful ReadCNF of a declaration of two clauses.
C1_Witness ==
    /\ pc = "done" /\ ret.err = Nil
    /\ Len(ret.cnf.Clauses) = 2 /\ ret.cnf.NumVars = 2

\* C2: whenever ReadCNF returns an error it returns the empty CNFFormula,
\* whatever the builder had accumulated.
C2_ErrorMeansEmptyFormula ==
    (pc = "done" /\ ret.err # Nil) => ret.cnf = EmptyFormula

\* ReadCNF has returned an error although the builder holds a clause.
C2_Witness ==
    /\ pc = "done" /\ ret.err # Nil
    /\ builder.cnf # NilCNF /\ Len(builder.cnf[1].Clauses) >= 1
    /\ ret.cnf = EmptyFormula

\* C3: at every point of ReadBuilder, the Builder calls made so far are the
\* non-blank lines scanned so far, one call per line in file order, of the
\* kind the line's first character gives, a Comment call carrying the whole
\* trimmed line; the only scanned non-blank line without a call is a
\* malformed line, on which the scanner returns; and when ReadBuilder
\* returns nil every line of the input has been scanned.
C3_CallsFollowLines ==
    LET nb        == NonBlankScanned
        malformed == pos >= 1 /\ ~WellFormedLine(pos)
    IN  /\ Len(calls) = Len(nb) - (IF malformed THEN 1 ELSE 0)
        /\ \A k \in 1..Len(calls) :
              /\ calls[k].op = OpOfKind(Kind(nb[k]))
              /\ calls[k].op = "Comment" => calls[k].arg = <<TrimSpace(input[nb[k]])>>
        /\ malformed => pc # "scan" /\ rbErr # Nil
        /\ (pc = "returned" /\ rbErr = Nil) => pos = Len(input)

\* ReadBuilder has returned nil on four lines, one of them blank, after one
\* call of each kind.
C3_Witness ==
    /\ pc = "returned" /\ rbErr = Nil
    /\ Len(input) = 4 /\ \E i \in 1..4 : Kind(i) = "blank"
    /\ Len(calls) = 3
    /\ {calls[k].op : k \in 1..3} = {"Comment", "Problem", "Clause"}

\* C4: a Builder call that returns an error is the last call made:
\* ReadBuilder has returned that error and scanned no line after the one it
\* was called for; and on an input of well-formed lines that the reader
\* delivers to its end, ReadBuilder returns nil when no Builder call
\* returned an error, having scanned every line.
C4_BuilderErrorStopsScan ==
    /\ \A k \in 1..Len(calls) :
          calls[k].err # Nil =>
              /\ k = Len(calls)
              /\ pc = "returned" /\ rbErr = calls[k].err
              /\ Len(NonBlankScanned) = k /\ Kind(pos) # "blank"
    /\ ( /\ pc = "returned" /\ stream # "failed"
         /\ \A i \in 1..Len(input) : WellFormedLine(i)
         /\ \A k \in 1..Len(calls) : calls[k].err = Nil )
       => rbErr = Nil /\ pos = Len(input)

\* A testBuilder's Clause error has ended the scan with lines left unread.
C4_Witness ==
    /\ pc = "returned" /\ rbErr = "clause error"
    /\ calls # <<>> /\ calls[Len(calls)].err = "clause error"
    /\ Len(calls) >= 2
    /\ pos < Len(input) /\ Kind(pos + 1) # "blank"

\* C5: a clause line that no problem line precedes is where ReadBuilder
\* stops: no later line is scanned, the builder has stored nothing, and
\* ReadCNF returns the error, whatever follows the line.
C5_ClauseBeforeProblem ==
    \A i \in ClauseLines :
        FirstStructural(i) =>
            /\ pos <= i
            /\ pos = i => /\ pc # "scan" /\ rbErr # Nil
                          /\ stream = "open" /\ builder.cnf = NilCNF
            /\ pc = "done" => ret.err # Nil /\ ret.err = rbErr

\* ReadCNF has returned the builder's error for a well-formed clause line
\* that a valid problem line follows.
C5_Witness ==
    /\ pc = "done" /\ ret.err = "clause found before problem line"
    /\ \E i \in ClauseLines : \E j \in ProblemLines :
          FirstStructural(i) /\ WellFormedClause(i) /\ i < j /\ ValidProblem(j)

\* C6: the builder accepts at most one Problem call and keeps the counts of
\* the one it accepted; a Problem call after an accepted one returns an
\* error, which ends the scan; and ReadCNF returns an error on every input
\* with two problem lines.
C6_AtMostOneProblem ==
    /\ Cardinality(AcceptedProblems) <= 1
    /\ \A k \in AcceptedProblems :
          /\ builder.cnf # NilCNF
          /\ builder.cnf[1].NumVars = calls[k].arg[2]
          /\ builder.cnf[1].cap = calls[k].arg[3]
    /\ \A k \in 1..Len(calls) :
          (calls[k].op = "Problem" /\ \E j \in AcceptedProblems : j < k) =>
              /\ calls[k].err # Nil /\ k = Len(calls)
              /\ pc # "scan" /\ rbErr = calls[k].err
    /\ (pc = "done" /\ Cardinality(ProblemLines) >= 2) => ret.err # Nil

\* ReadCNF has returned the duplicate-problem error for a problem line that
\* repeats the accepted one after a clause line.
C6_Witness ==
    /\ pc = "done" /\ ret.err = "duplicate problem line"
    /\ Len(calls) = 3
    /\ calls[1].op = "Problem" /\ calls[2].op = "Clause" /\ calls[3].op = "Problem"
    /\ calls[3].arg = calls[1].arg

\* C7: the builder never holds more clauses than the problem line declares;
\* a Clause call made when it holds that many returns an error, on which
\* ReadBuilder returns before the end of the stream and ReadCNF returns an
\* error.
C7_NeverMoreThanDeclared ==
    /\ builder.cnf # NilCNF =>
          \E p \in ProblemLines :
              /\ FirstStructural(p) /\ ValidProblem(p)
              /\ builder.cnf[1].cap = DeclaredClauses(p)
              /\ Len(builder.cnf[1].Clauses) <= DeclaredClauses(p)
    /\ \A k \in 1..Len(calls) :
          ( /\ calls[k].op = "Clause"
            /\ \E j \in AcceptedProblems :
                  j < k /\ AcceptedClausesBefore(k) = calls[j].arg[3] )
          => /\ calls[k].err # Nil /\ k = Len(calls)
             /\ pc # "scan" /\ rbErr = calls[k].err /\ stream = "open"
             /\ pc = "done" => ret.err = calls[k].err

\* ReadCNF has returned the too-many-clauses error at a clause line that
\* follows the one declared clause, with a line left unread.
C7_Witness ==
    /\ pc = "done" /\ ret.err = "too many clauses"
    /\ builder.cnf # NilCNF
    /\ builder.cnf[1].cap = 1 /\ Len(builder.cnf[1].Clauses) = 1
    /\ pos < Len(input)

\* An input that is valid but for its clause lines being fewer than declared.
TooFewClauses ==
    \E p \in ProblemLines :
        /\ ProblemLines = {p} /\ ValidProblem(p)
        /\ \A c \in ClauseLines : c > p /\ WellFormedClause(c)
        /\ Cardinality(ClauseLines) < DeclaredClauses(p)

\* C8: on an input with fewer clause lines than declared, ReadBuilder
\* returns only once every line has been scanned and delivered, it returns
\* nil when the stream ends cleanly, and ReadCNF then returns the
\* missing-clauses error.
C8_MissingClausesAtEnd ==
    TooFewClauses =>
        /\ pc # "scan" => pos = Len(input)
        /\ Len(calls) = Len(NonBlankScanned)
        /\ \A k \in 1..Len(calls) : calls[k].err = Nil
        /\ (pc # "scan" /\ stream # "failed") => rbErr = Nil
        /\ pc = "done" => ret.err # Nil
        /\ (pc = "done" /\ stream # "failed") => ret.err = "missing clauses"

\* ReadCNF has returned the missing-clauses error after the builder took
\* one clause of the two declared.
C8_Witness ==
    /\ TooFewClauses
    /\ pc = "done" /\ stream = "eof" /\ ret.err = "missing clauses"
    /\ rbErr = Nil
    /\ Len(builder.cnf[1].Clauses) = 1 /\ builder.cnf[1].cap = 2

\* C9: ReadCNF returns an error on every input without a problem line; when
\* the input has only blank and comment lines and ends cleanly, ReadBuilder
\* returns nil and the error is ReadCNF's own.
C9_NoProblemLine ==
    (pc = "done" /\ ProblemLines = {}) =>
        /\ ret.err # Nil
        /\ (ClauseLines = {} /\ stream # "failed") =>
              rbErr = Nil /\ ret.err = "missing problem line found"

\* ReadCNF has returned its error on an input of comment lines only.
C9_Witness ==
    /\ pc = "done" /\ stream = "eof"
    /\ Len(input) >= 2 /\ \A i \in 1..Len(input) : Kind(i) = "comment"
    /\ ret.err = "missing problem line found"

\* Trailing content of the kind the legacy end-of-instance marker brings:
\* a "%" line, a "0" line, comment lines and blank lines.
IsTrailer(i) ==
    \/ Kind(i) \in {"blank", "comment"}
    \/ TrimSpace(input[i]) \in {L_percent, L_cl0}

\* C10: when a prefix of the input is a complete instance (ReadCNF succeeds
\* on it) and only "%", "0", comment and blank lines follow, ReadCNF
\* returns without error the formula it returns for the prefix.
C10_TrailingContentIgnored ==
    (pc = "done" /\ stream # "failed") =>
        \A k \in 0..Len(input) :
            ( /\ ReadCNFOf(SubSeq(input, 1, k)).err = Nil
              /\ \A i \in (k + 1)..Len(input) : IsTrailer(i) )
            => ret = ReadCNFOf(SubSeq(input, 1, k))

\* The tokens of line i that are integers of value 0.
ZeroTokens(i) ==
    LET parts == Fields(input[i])
    IN  {k \in 1..Len(parts) : IsInt(parts[k]) /\ Atoi(parts[k]).val = 0}

\* A clause line with a 0 token that is not its last token.
ZeroBeforeEnd(i) ==
    /\ Kind(i) = "clause"
    /\ \E k \in ZeroTokens(i) : k < Len(Fields(input[i]))

\* C11: a scanned clause line with a 0 token before its last token is where
\* ReadBuilder returns an error: it is the last line scanned, no Clause
\* call was made for it, the error is the zero-before-end error when the
\* tokens before the 0 are integers, and ReadCNF returns the error.
C11_ZeroBeforeEndRejected ==
    \A i \in 1..pos :
        ZeroBeforeEnd(i) =>
            /\ pos = i /\ pc # "scan" /\ rbErr # Nil
            /\ Len(calls) = Len(NonBlankScanned) - 1
            /\ (\A k \in 1..Len(Fields(input[i])) : IsInt(Fields(input[i])[k]))
                  => rbErr = "zero found before end of clause line"
            /\ pc = "done" => ret.err = rbErr

\* ReadCNF has returned the zero-before-end error for a clause line that
\* follows an accepted problem line; the builder holds no clause.
C11_Witness ==
    /\ pc = "done" /\ ret.err = "zero found before end of clause line"
    /\ pos = 2 /\ ZeroBeforeEnd(2)
    /\ Len(calls) = 1 /\ calls[1].op = "Problem" /\ calls[1].err = Nil
    /\ builder.cnf # NilCNF /\ builder.cnf[1].Clauses = <<>>

\* The tokens of line i without its last token when that token is a 0.
TokensSansZero(i) ==
    LET parts == Fields(input[i])
        n     == Len(parts)
    IN  IF n > 0 /\ n \in ZeroTokens(i) THEN SubSeq(parts, 1, n - 1) ELSE parts

\* The clause a well-formed clause line stands for: the values of its
\* tokens, a final 0 left out.
ExpectedClause(i) ==
    [k \in 1..Len(TokensSansZero(i)) |-> Atoi(TokensSansZero(i)[k]).val]

\* The clause lines of the input, in file order.
ClauseLinesSeq == SelectSeq([i \in 1..Len(input) |-> i], LAMBDA i : Kind(i) = "clause")

\* C12: every clause passed to Builder.Clause is the sequence of the values
\* of its line's tokens with a final 0 token left out, and holds no 0; the
\* scanner builds that same clause from the line written with and without
\* the final 0; and every clause of a formula ReadCNF returns is the clause
\* of the clause line at its place.
C12_ClausesWithoutZero ==
    /\ \A k \in 1..Len(calls) :
          calls[k].op = "Clause" =>
              LET i == NonBlankScanned[k]
              IN  /\ calls[k].arg = ExpectedClause(i)
                  /\ \A j \in 1..Len(calls[k].arg) : calls[k].arg[j] # 0
                  /\ ClauseLoop(TokensSansZero(i), 1, <<>>)
                        = [err |-> Nil, buf |-> calls[k].arg]
                  /\ ClauseLoop(Append(TokensSansZero(i), <<"0">>), 1, <<>>)
                        = [err |-> Nil, buf |-> calls[k].arg]
    /\ (pc = "done" /\ ret.err = Nil) =>
          /\ Len(ret.cnf.Clauses) = Len(ClauseLinesSeq)
          /\ \A k \in 1..Len(ret.cnf.Clauses) :
                /\ ret.cnf.Clauses[k] = ExpectedClause(ClauseLinesSeq[k])
                /\ \A j \in 1..Len(ret.cnf.Clauses[k]) : ret.cnf.Clauses[k][j] # 0

\* ReadCNF has returned a formula whose two clauses come from the same
\* literals written with and without the final 0.
C12_Witness ==
    /\ pc = "done" /\ ret.err = Nil
    /\ input = <<L_p22, L_cl21, L_cl210>>
    /\ ret.cnf.Clauses = <<<<0 - 2, 1>>, <<0 - 2, 1>>>>

\* The input without its comment lines.
SansComments ==
    SelectSeq(input, LAMBDA l : ~(TrimSpace(l) # <<>> /\ Head(TrimSpace(l)) = "c"))

\* C13: when the reader does not fail, ReadCNF returns for the input what
\* it returns for the input with every comment line removed: the same
\* error or none, and the same formula.  Hence two inputs that differ only
\* in their comment lines get the same result.
C13_CommentsCarryNoMeaning ==
    (pc = "done" /\ stream # "failed") => ret = ReadCNFOf(SansComments)

\* ReadCNF has returned a formula of one clause for an input that begins
\* and ends with a comment line.
C13_Witness ==
    /\ pc = "done" /\ ret.err = Nil
    /\ Len(input) = 4 /\ Kind(1) = "comment" /\ Kind(4) = "comment"
    /\ Len(ret.cnf.Clauses) = 1
    /\ ret = ReadCNFOf(SubSeq(input, 2, 3))

\* A well-formed problem line with a format tag other than "cnf" or a
\* negative count.
RejectedProblem(i) ==
    /\ Kind(i) = "problem" /\ WellFormedProblem(i)
    /\ \/ Fields(input[i])[2] # CnfTag
       \/ DeclaredVars(i) < 0
       \/ DeclaredClauses(i) < 0

\* The error cnfBuilder.Problem returns for such a line when it is the
\* first problem line.
RejectionOf(i) ==
    IF Fields(input[i])[2] # CnfTag THEN "expected cnf problem"
    ELSE IF DeclaredVars(i) < 0 THEN "number of variables must be non-negative"
    ELSE "number of clauses must be non-negative"

\* C14: a scanned problem line with a tag other than "cnf" or a negative
\* count is delivered to Problem, which returns an error; ReadBuilder
\* returns it at that line and ReadCNF returns it with the empty formula.
\* When no problem line was accepted before, the error names the tag or
\* the count and the builder's formula is still nil.
C14_ProblemRejected ==
    \A i \in 1..pos :
        RejectedProblem(i) =>
            /\ pos = i /\ pc # "scan"
            /\ calls # <<>>
            /\ calls[Len(calls)].op = "Problem"
            /\ calls[Len(calls)].err # Nil
            /\ rbErr = calls[Len(calls)].err
            /\ AcceptedProblems = {} =>
                  rbErr = RejectionOf(i) /\ builder.cnf = NilCNF
            /\ pc = "done" => ret = [cnf |-> EmptyFormula, err |-> rbErr]

\* ReadCNF has returned the error for a negative clause count; the builder
\* holds no formula.
C14_Witness ==
    /\ pc = "done" /\ ret.err = "number of clauses must be non-negative"
    /\ pos = 2 /\ Kind(1) = "comment" /\ RejectedProblem(2)
    /\ builder.cnf = NilCNF

\* The error the scanner returns for a malformed problem line.
MalformedProblemError(i) ==
    LET parts == Fields(input[i])
    IN  IF Len(parts) # 4 THEN "problem line should have 4 parts"
        ELSE IF ~IsInt(parts[3]) THEN "invalid number of variables"
        ELSE "invalid number of clauses"

\* C15: a scanned problem line that has not exactly 4 fields or whose
\* variable or clause count is no integer is where ReadBuilder returns the
\* scanner's error, without a Problem call for the line.
C15_MalformedProblem ==
    \A i \in 1..pos :
        (Kind(i) = "problem" /\ ~WellFormedProblem(i)) =>
            /\ pos = i /\ pc # "scan"
            /\ rbErr = MalformedProblemError(i)
            /\ Len(calls) = Len(NonBlankScanned) - 1
            /\ \A k \in 1..Len(calls) : calls[k].err = Nil
            /\ pc = "done" => ret = [cnf |-> EmptyFormula, err |-> rbErr]

\* ReadBuilder has returned on a problem line of five fields that follows
\* a comment line; the only call made is the Comment call.
C15_Witness ==
    /\ pc = "returned" /\ rbErr = "problem line should have 4 parts"
    /\ pos = 2 /\ input[2] = L_plong
    /\ Len(calls) = 1 /\ calls[1].op = "Comment"

\* C16 as stated: once the reader has failed, ReadBuilder returns the
\* reader's error and ReadCNF returns an error.
C16_StreamErrorReturnedAsIs ==
    (pc # "scan" /\ scanErr # Nil) =>
        /\ rbErr = scanErr
        /\ pc = "done" => ret.err # Nil

\* C16, amended: once the reader has failed, ReadBuilder returns an error
\* and ReadCNF returns it with the empty formula, whatever the builder
\* holds.  The error is the reader's own when ReadBuilder has reached the
\* end of the lines it read; otherwise it is the error of the line on
\* which ReadBuilder returned first: a malformed line or a line whose
\* Builder call returned an error.
C16_StreamFailureGivesError ==
    /\ (pc # "scan" /\ scanErr # Nil) =>
          /\ rbErr # Nil
          /\ \/ stream = "failed" /\ rbErr = scanErr /\ pos = Len(input)
             \/ /\ stream = "open" /\ pos >= 1
                /\ \/ ~WellFormedLine(pos)
                   \/ calls # <<>> /\ calls[Len(calls)].err = rbErr
          /\ pc = "done" => ret = [cnf |-> EmptyFormula, err |-> rbErr]
    /\ stream = "failed" => scanErr # Nil /\ pc # "scan"

\* ReadCNF has returned the reader's error although the builder holds the
\* two declared clauses.
C16_Witness ==
    /\ pc = "done" /\ stream = "failed" /\ ret.err = "read error"
    /\ builder.cnf # NilCNF
    /\ builder.cnf[1].cap = 2 /\ Len(builder.cnf[1].Clauses) = 2

\* The lines of the input that are neither blank nor comments.
StructuralLines == {i \in 1..Len(input) : Kind(i) \notin {"blank", "comment"}}

\* C17: when the only line of the input that is neither blank nor a comment
\* is the problem line "p cnf 0 0" and the reader ends without failing,
\* ReadCNF returns the formula with NumVars 0 and no clauses, and no error.
C17_ZeroZeroParses ==
    (/\ pc = "done" /\ stream # "failed"
     /\ \E i \in 1..Len(input) :
           /\ StructuralLines = {i}
           /\ Kind(i) = "problem" /\ WellFormedProblem(i)
           /\ Fields(TrimSpace(input[i]))[2] = CnfTag
           /\ DeclaredVars(i) = 0 /\ DeclaredClauses(i) = 0)
        => ret = [cnf |-> [NumVars |-> 0, Clauses |-> <<>>], err |-> Nil]

\* ReadCNF has returned on "c x", "p cnf 0 0", "" read to the end.
C17_Witness ==
    /\ pc = "done" /\ stream = "eof"
    /\ input = <<L_comment, L_p00, L_empty>>
    /\ ret.err = Nil /\ ret.cnf.NumVars = 0 /\ ret.cnf.Clauses = <<>>

\* C18: with a builder whose operations all return nil, ReadBuilder returns
\* nil on every input of well-formed lines read to the end, after one call
\* for each non-blank line: no problem line, several of them, clauses before
\* them, another format than cnf, negative counts and a wrong number of
\* clauses are not looked at by the scanner.
C18_OnlySyntaxChecked ==
    (/\ pc = "returned" /\ stream # "failed"
     /\ builder = NewTestBuilder(Nil, Nil, Nil)
     /\ \A i \in 1..Len(input) : WellFormedLine(i))
        => /\ rbErr = Nil
           /\ pos = Len(input)
           /\ Len(calls) = Len(NonBlankScanned)
           /\ \A k \in 1..Len(calls) : calls[k].op = OpOfKind(Kind(NonBlankScanned[k]))

\* ReadBuilder has returned nil on a clause, a problem line of another
\* format, one with a negative count and a cnf problem line, in this order.
C18_Witness ==
    /\ pc = "returned" /\ stream = "eof" /\ rbErr = Nil
    /\ input = <<L_cl1, L_pfoo, L_pnegc, L_p11>>
    /\ Len(calls) = 4

\* The Clause calls that returned nil, in call order.
AcceptedClauseCalls ==
    SelectSeq([k \in 1..Len(calls) |-> k],
              LAMBDA k : calls[k].op = "Clause" /\ calls[k].err = Nil)

\* C19: at every point of the scan the k-th clause the reference builder
\* holds is the clause of the line of the k-th accepted Clause call, so
\* that no later line, which is written over the scratch buffer, changes
\* it; and the k-th clause of a returned formula is the clause of the k-th
\* clause line of the input.
C19_StoredClausesAreCopies ==
    /\ (builder.kind = "cnf" /\ builder.cnf # NilCNF) =>
          /\ Len(builder.cnf[1].Clauses) = Len(AcceptedClauseCalls)
          /\ \A k \in 1..Len(builder.cnf[1].Clauses) :
                builder.cnf[1].Clauses[k]
                    = ExpectedClause(NonBlankScanned[AcceptedClauseCalls[k]])
    /\ (pc = "done" /\ ret.err = Nil) =>
          ret.cnf.Clauses
              = [k \in 1..Len(ClauseLinesSeq) |-> ExpectedClause(ClauseLinesSeq[k])]

\* ReadCNF has returned the clause of "1 0" unchanged after the scratch
\* buffer has been overwritten with the literals of " -2  1".
C19_Witness ==
    /\ pc = "done" /\ ret.err = Nil
    /\ input = <<L_p22, L_cl1, L_comment, L_cl21>>
    /\ clauseBuf = <<0 - 2, 1>>
    /\ ret.cnf.Clauses = <<<<1>>, <<0 - 2, 1>>>>

\* Clause line i has a literal of a variable above n.
ExceedsBound(i, n) ==
    \E j \in 1..Len(ExpectedClause(i)) :
        ExpectedClause(i)[j] > n \/ 0 - ExpectedClause(i)[j] > n

\* C20: when the input of a reader that does not fail has one problem line, accepted and
\* ahead of the clause lines, and as many well-formed clause lines as it
\* declares, one of them with a literal of a variable above the declared
\* number, ReadCNF returns no error, the declared number of variables and
\* every clause with the literals of its line.
C20_VariableBoundNotEnforced ==
    (/\ pc = "done" /\ stream # "failed"
     /\ \E p \in 1..Len(input) :
           /\ ProblemLines = {p}
           /\ ValidProblem(p) /\ FirstStructural(p)
           /\ Len(ClauseLinesSeq) = DeclaredClauses(p)
           /\ \A i \in ClauseLines : WellFormedClause(i)
           /\ \E i \in ClauseLines : ExceedsBound(i, DeclaredVars(p)))
        => /\ ret.err = Nil
           /\ \E p \in ProblemLines : ret.cnf.NumVars = DeclaredVars(p)
           /\ ret.cnf.Clauses
                 = [k \in 1..Len(ClauseLinesSeq) |-> ExpectedClause(ClauseLinesSeq[k])]

\* ReadCNF has returned the clause -2 1 of a formula of one variable.
C20_Witness ==
    /\ pc = "done" /\ stream = "eof" /\ ret.err = Nil
    /\ input = <<L_p11, L_cl21>>
    /\ ret.cnf = [NumVars |-> 1, Clauses |-> <<<<0 - 2, 1>>>>]

\* Line i holds the token 0 and nothing else.
ZeroOnly(i) == Fields(input[i]) = <<<<"0">>>>

====
